---- MODULE Spec2Model ----
(***************************************************************************)
(* Orchestration and streaming pipeline of the PeopleFinder backend:       *)
(* the plan generator (src/services/orchestrator.py) and the SSE stream    *)
(* generator with its agent call (src/routes/chat.py).                     *)
(*                                                                         *)
(* Text is modelled as a sequence of tokens.  A token is a run of          *)
(* characters that the parsing code cannot tell apart further:             *)
(*   "fence" a markdown fence (three backticks)                            *)
(*   "json"  the letters json (garbage outside a JSON string)              *)
(*   "ws"    white space                                                   *)
(*   "1"     a digit (a JSON number on its own, a character in a string)   *)
(*   "{r:"   the text  {"response":"   opening a plan object               *)
(*   ":a0}"  the text  ","agents":[]}                                      *)
(*   ":a1}"  the text  ","agents":[{"task":"t1","prompt":"p1"}]}           *)
(*   ":a2}"  the same with two agents                                      *)
(*   "}"     the text  "}   closing an object that has no agents field     *)
(***************************************************************************)
EXTENDS Integers, Sequences, FiniteSets, TLC

VARIABLES
    \* ---- plan generator under test (orchestrator.py) ----
    provider,      \* "google" | "anthropic": which generator is called
    keySet,        \* is the provider's API key in the environment
    upstream,      \* what the provider answers: [outcome, content]
    results,       \* wrapping -> result of the call made with that wrapping
    \* ---- one chat request (chat.py) ----
    env,           \* names of the API keys present in the environment
    planner,       \* which spin_up_orchestrator stream_generator resolves to
    pc,            \* position of stream_generator
    plan,          \* the plan returned by the plan generator
    agent_idx,     \* index of the agent being processed (1-based)
    knowledge_entries,
    pending,       \* lines call_ai_agent has still to yield
    exc,           \* message of the exception in flight, or "" for none
    events,        \* SSE items emitted so far
    requests,      \* upstream requests issued so far, with their outcomes
    delivered,     \* agent index -> chunks call_ai_agent yielded
    \* ---- one call of SearchService.search (services/search.py) ----
    search_env,          \* names of the search credentials in the environment
    search_provider_env, \* value of SEARCH_PROVIDER, "UNSET" when not set
    provider_override,   \* the provider name passed to search, "" for None
    search_out,          \* what the call returned, and the vendor's answer
    \* ---- one person-search request (routes/search.py) ----
    request_body,         \* the request's JSON body
    person_pc,            \* where person_search stands
    query,                \* the parts the query is joined from
    normalized_providers, \* the provider names to ask, in order
    provider_results,     \* the groups gathered so far
    vendor_answers,       \* what the vendor answered for each group
    person_plan,          \* what the plan generator returned
    upstream_calls,       \* the upstream requests sent, in order
    response,             \* the HTTP response
    \* ---- persona extraction from a result list (routes/llm.py) ----
    search_results,       \* the result entries handed to the extractor
    persona_pc,           \* where the extraction stands
    primary_persona,      \* what extract_persona gave for the first entry
    additional_personas,  \* what extract_personas_from_results gave
    \* ---- a second chat request served by the same process ----
    suspended,            \* the locals of the request that is not running
    running               \* which of the two requests runs, 0 when only one

planVars == <<provider, keySet, upstream, results>>
chatVars == <<env, planner, pc, plan, agent_idx, knowledge_entries, pending,
              exc, events, requests, delivered>>
searchVars == <<search_env, search_provider_env, provider_override, search_out>>
personVars ==
    <<request_body, person_pc, query, normalized_providers, provider_results,
      vendor_answers, person_plan, upstream_calls, response>>
personaVars ==
    <<search_results, persona_pc, primary_persona, additional_personas>>
twoVars == <<suspended, running>>
nonChatVars == <<planVars, searchVars, personVars, personaVars, twoVars>>
nonPlanVars == <<chatVars, searchVars, personVars, personaVars, twoVars>>
nonSearchVars == <<planVars, chatVars, personVars, personaVars, twoVars>>
nonPersonVars == <<planVars, chatVars, searchVars, personaVars, twoVars>>
nonPersonaVars == <<planVars, chatVars, searchVars, personVars, twoVars>>
nonTwoVars == <<planVars, searchVars, personVars, personaVars>>
vars == <<planVars, chatVars, searchVars, personVars, personaVars, twoVars>>

\* ---------------------------------------------------------------- bounds
MaxLen == 3      \* longest arbitrary model response, in tokens
MaxStr == 3      \* longest response string inside a plan document
MaxLines == 3    \* most lines in an agent's upstream response body
MaxVendor == 11  \* most entries in a search vendor's result list
MaxProviders == 2  \* most names in a request's search_providers list
MaxTitle == 4    \* longest arbitrary result title, in characters
MaxEntries == 3  \* most entries handed to extract_personas_from_results
MaxLiveLines == 2  \* most lines in a body where termination is checked

\* ------------------------------------------------------------ text model
Fence == "fence"
Json == "json"
Ws == "ws"
Digit == "1"
Open == "{r:"
NoAgents == "}"
Closers == {":a0}", ":a1}", ":a2}"}
StrChars == {Fence, Json, Ws, Digit}
Tokens == StrChars \cup {Open, NoAgents} \cup Closers

SeqsUpTo(S, n) == UNION {[1..k -> S] : k \in 0..n}

\* first index >= from at which sep occurs in s, 0 when it does not
Find(s, sep, from) ==
    LET hits == {i \in from..(Len(s) - Len(sep) + 1) :
                    SubSeq(s, i, i + Len(sep) - 1) = sep}
    IN IF hits = {} THEN 0 ELSE CHOOSE i \in hits : \A j \in hits : i <= j

\* sep in s
Contains(s, sep) == Find(s, sep, 1) # 0

\* s.split(sep): the parts between the non-overlapping occurrences of sep
RECURSIVE Split(_, _)
Split(s, sep) ==
    LET i == Find(s, sep, 1) IN
    IF i = 0 THEN <<s>>
    ELSE <<SubSeq(s, 1, i - 1)>> \o Split(SubSeq(s, i + Len(sep), Len(s)), sep)

RECURSIVE LStrip(_)
LStrip(s) == IF s # <<>> /\ Head(s) = Ws THEN LStrip(Tail(s)) ELSE s

RECURSIVE RStrip(_)
RStrip(s) ==
    IF s # <<>> /\ s[Len(s)] = Ws THEN RStrip(SubSeq(s, 1, Len(s) - 1)) ELSE s

\* s.strip()
Strip(s) == RStrip(LStrip(s))

\* --------------------------------------------------- plan values and JSON
TaskNames == <<"t1", "t2">>
PromptNames == <<"p1", "p2">>
Agent(i) == [task |-> TaskNames[i], prompt |-> PromptNames[i]]

AgentsOf(closer) ==
    CASE closer = ":a0}" -> <<>>
      [] closer = ":a1}" -> <<Agent(1)>>
      [] closer = ":a2}" -> <<Agent(1), Agent(2)>>
      [] OTHER -> <<>>

NoPlan == [response |-> <<>>, agents |-> <<>>]

\* the value of a plan variable that has not been assigned
Unbound == [response |-> <<"unbound">>, agents |-> <<>>]

FallbackPlan ==
    [response |-> <<"Unable to parse orchestrator response">>, agents |-> <<>>]

Returned(p, n) == [kind |-> "return", plan |-> p, error |-> "", sent |-> n]
Raised(msg, n) == [kind |-> "raise", plan |-> NoPlan, error |-> msg, sent |-> n]

DecodeError == [ok |-> FALSE, kind |-> "none", response |-> <<>>,
                hasAgents |-> FALSE, agents |-> <<>>]

\* json.loads(s): white space around the value is ignored; a run of digits is
\* a number; an object is the opening text, string characters, a closing text
JsonLoads(s) ==
    LET t == Strip(s) IN
    IF t # <<>> /\ \A i \in 1..Len(t) : t[i] = Digit
    THEN [ok |-> TRUE, kind |-> "number", response |-> <<>>,
          hasAgents |-> FALSE, agents |-> <<>>]
    ELSE IF /\ Len(t) >= 2
            /\ t[1] = Open
            /\ t[Len(t)] \in Closers \cup {NoAgents}
            /\ \A i \in 2..(Len(t) - 1) : t[i] \in StrChars
    THEN [ok |-> TRUE, kind |-> "object",
          response |-> SubSeq(t, 2, Len(t) - 1),
          hasAgents |-> t[Len(t)] \in Closers,
          agents |-> AgentsOf(t[Len(t)])]
    ELSE DecodeError

\* the OrchestratorPlan model: response and agents are both required
OrchestratorPlan(data) ==
    IF data.hasAgents
    THEN Returned([response |-> data.response, agents |-> data.agents], 1)
    ELSE Raised("validation error for OrchestratorPlan", 1)

\* OrchestratorPlan(**plan_data): ** needs a mapping
PlanFromData(data) ==
    IF data.kind # "object"
    THEN Raised("argument after ** must be a mapping", 1)
    ELSE OrchestratorPlan(data)

\* mutation: the fence without a language tag is not recognised
ExtractJsonTaggedOnly(content) ==
    IF Contains(content, <<Fence, Json>>)
    THEN Strip(Split(Split(content, <<Fence, Json>>)[2], <<Fence>>)[1])
    ELSE content

\* ------------------------------------------ orchestrator.py, Google Gemini
ExtractJson(content) ==
    IF Contains(content, <<Fence, Json>>)
    THEN Strip(Split(Split(content, <<Fence, Json>>)[2], <<Fence>>)[1])
    ELSE IF Contains(content, <<Fence>>)
    THEN Strip(Split(Split(content, <<Fence>>)[2], <<Fence>>)[1])
    ELSE content

ParsePlan(content) ==
    LET plan_data == JsonLoads(ExtractJson(content)) IN
    IF plan_data.ok THEN PlanFromData(plan_data)
    ELSE Returned(FallbackPlan, 1)

\* mutation: every failure degrades to the default plan
spin_up_orchestrator_degrading(key, up) ==
    IF ~key THEN Returned(FallbackPlan, 0)
    ELSE IF up.outcome # "ok" THEN Returned(FallbackPlan, 1)
    ELSE ParsePlan(up.content)

spin_up_orchestrator(key, up) ==
    IF ~key THEN Raised("GOOGLE_API_KEY not set", 0)
    ELSE IF up.outcome \in {"timeout", "connect_error"} THEN Raised(up.outcome, 1)
    ELSE IF up.outcome = "http_error" THEN Raised("http status error", 1)
    ELSE IF up.outcome = "empty" THEN Raised("No candidates in response", 1)
    ELSE ParsePlan(up.content)

\* --------------------------------------- orchestrator.py, Anthropic Claude
ExtractJsonAnthropic(content) ==
    IF Contains(content, <<Fence, Json>>)
    THEN Strip(Split(Split(content, <<Fence, Json>>)[2], <<Fence>>)[1])
    ELSE IF Contains(content, <<Fence>>)
    THEN Strip(Split(Split(content, <<Fence>>)[2], <<Fence>>)[1])
    ELSE content

ParsePlanAnthropic(content) ==
    LET plan_data == JsonLoads(ExtractJsonAnthropic(content)) IN
    IF plan_data.ok THEN PlanFromData(plan_data)
    ELSE Returned(FallbackPlan, 1)

spin_up_orchestrator_anthropic(key, up) ==
    IF ~key THEN Raised("ANTHROPIC_API_KEY not set", 0)
    ELSE IF up.outcome \in {"timeout", "connect_error"} THEN Raised(up.outcome, 1)
    ELSE IF up.outcome = "http_error" THEN Raised("http status error", 1)
    ELSE IF up.outcome = "empty" THEN Raised("No content in response", 1)
    ELSE ParsePlanAnthropic(up.content)

\* _generate_plan of routes/search.py: the provider selects the generator
GeneratePlanFor(p, key, up) ==
    IF p = "anthropic" THEN spin_up_orchestrator_anthropic(key, up)
    ELSE spin_up_orchestrator(key, up)

\* ------------------------------------------------- inputs of the generator
\* valid plan documents: an object with a response string and an agents list
PlanDocs ==
    {<<Open>> \o str \o <<c>> : str \in SeqsUpTo(StrChars, MaxStr), c \in Closers}

\* the three ways a model wraps its JSON
Wrappings == {"bare", "plain", "json"}

Wrap(w, doc) ==
    CASE w = "json" -> <<Fence, Json, Ws>> \o doc \o <<Ws, Fence>>
      [] w = "plain" -> <<Fence, Ws>> \o doc \o <<Ws, Fence>>
      [] OTHER -> doc

Failures == {"timeout", "connect_error", "http_error", "empty"}

Upstreams ==
    {[outcome |-> o, content |-> <<>>] : o \in Failures}
    \cup {[outcome |-> "ok", content |-> c] :
            c \in SeqsUpTo(Tokens, MaxLen) \cup PlanDocs}

NotCalled == [kind |-> "none", plan |-> NoPlan, error |-> "", sent |-> 0]

\* ------------------------------------------------ plan generator under test
PlanInit ==
    /\ provider \in {"google", "anthropic"}
    /\ keySet \in BOOLEAN
    /\ upstream \in Upstreams
    /\ results = [w \in Wrappings |-> NotCalled]

\* one call of the selected generator; the provider answers with the
\* upstream's text in wrapping w
Generate(w) ==
    /\ results[w].kind = "none"
    /\ results' = [results EXCEPT ![w] =
          GeneratePlanFor(provider, keySet,
              [upstream EXCEPT !.content = Wrap(w, upstream.content)])]
    /\ UNCHANGED <<provider, keySet, upstream>>

\* --------------------------------------------------------- chat.py: events
PlanEvent(p) == [type |-> "plan", agent |-> "", text |-> "", plan |-> p]
AgentStartEvent(a) ==
    [type |-> "agentStart", agent |-> a.task, text |-> a.prompt, plan |-> NoPlan]
AgentEndEvent(a) ==
    [type |-> "agentEnd", agent |-> a.task, text |-> "", plan |-> NoPlan]
ErrorEvent(msg) == [type |-> "error", agent |-> "", text |-> msg, plan |-> NoPlan]

\* lines of an upstream body: sse says the line starts with "data: ", text is
\* what follows the prefix (the whole line when there is no prefix)
TextLine(sse, text) == [kind |-> "text", sse |-> sse, text |-> text]
BlankLine == TextLine(FALSE, "")
UpstreamLines ==
    {BlankLine, TextLine(TRUE, "a"), TextLine(FALSE, "a"), TextLine(FALSE, "b")}

\* json.dumps({"type": "error", "error": str(e)}) as a chunk
ErrorChunk(msg) == [kind |-> "error", sse |-> FALSE, text |-> msg]

\* line.strip() is empty
IsBlank(line) == line.kind = "text" /\ ~line.sse /\ line.text = ""

\* the SSE item stream_generator makes of a chunk: the line itself when it
\* starts with "data: ", else the line behind "data: "
Frame(line) ==
    [type |-> IF line.kind = "error" THEN "error" ELSE "raw",
     agent |-> "", text |-> line.text, plan |-> NoPlan]

\* the placeholder spin_up_orchestrator defined in chat.py
PlaceholderPlan ==
    [response |-> <<>>,
     agents |-> <<[task |-> "Task 0", prompt |-> "Prompt 0"],
                  [task |-> "Task 1", prompt |-> "Prompt 1"]>>]

build_sub_agent_prompt == "You are a helpful assistant."

\* mutation: the knowledge section is appended even when there are no entries
SystemPromptAlwaysSection(entries) ==
    [base |-> build_sub_agent_prompt, knowledge |-> entries, section |-> TRUE]

\* system prompt: the fixed text, and the knowledge section when there are entries
SystemPrompt(entries) ==
    [base |-> build_sub_agent_prompt, knowledge |-> entries,
     section |-> entries # <<>>]

\* what the planner's provider may answer in a chat request
ChatUpstreams ==
    {[outcome |-> o, content |-> <<>>] : o \in Failures}
    \cup {[outcome |-> "ok", content |-> Wrap(w, <<Open, c>>)] :
            w \in Wrappings, c \in Closers}
    \cup {[outcome |-> "ok", content |-> c] :
            c \in {<<Json>>, <<Digit>>, <<Open, NoAgents>>}}

\* what the agent's provider may answer: the whole body with a success
\* status, or a failure (a time-out or a broken connection, possibly after a
\* part of the body has arrived, or an error status with its body)
AgentResponses ==
    {[outcome |-> o, lines |-> b] :
        o \in {"timeout", "connect_error", "http_error"},
        b \in {<<>>, <<TextLine(TRUE, "a")>>}}
    \cup {[outcome |-> "ok", lines |-> b] : b \in SeqsUpTo(UpstreamLines, MaxLines)}

\* the locals of a stream_generator frame and of the call_ai_agent it
\* consumes (env and the binding of spin_up_orchestrator belong to the process)
Locals(p, pl, idx, ke, pend, e, evs, reqs, dlv) ==
    [pc |-> p, plan |-> pl, agent_idx |-> idx, knowledge_entries |-> ke,
     pending |-> pend, exc |-> e, events |-> evs, requests |-> reqs,
     delivered |-> dlv]

\* a request whose generator has not run yet
StartLocals == Locals("plan", Unbound, 1, <<>>, <<>>, "", <<>>, <<>>, <<>>)

\* there is no second request
TwoIdle ==
    /\ suspended = Locals("idle", Unbound, 1, <<>>, <<>>, "", <<>>, <<>>, <<>>)
    /\ running = 0

ChatInit ==
    /\ env \in SUBSET {"GOOGLE_API_KEY", "GEMINI_API_KEY"}
    /\ planner \in {"placeholder", "service"}
    /\ pc = "plan"
    /\ plan = Unbound
    /\ agent_idx = 1
    /\ knowledge_entries = <<>>
    /\ pending = <<>>
    /\ exc = ""
    /\ events = <<>>
    /\ requests = <<>>
    /\ delivered = <<>>

\* the request is not running (plan generator checked on its own)
ChatIdle ==
    /\ env = {}
    /\ planner = "service"
    /\ pc = "idle"
    /\ plan = Unbound
    /\ agent_idx = 1
    /\ knowledge_entries = <<>>
    /\ pending = <<>>
    /\ exc = ""
    /\ events = <<>>
    /\ requests = <<>>
    /\ delivered = <<>>
    /\ TwoIdle

PlanIdle ==
    /\ provider = "google"
    /\ keySet = FALSE
    /\ upstream = [outcome |-> "empty", content |-> <<>>]
    /\ results = [w \in Wrappings |-> NotCalled]

\* an upstream exchange: who was called, with what, and how it ended
PlannerRequest(o) ==
    [to |-> "planner", idx |-> 0, system |-> SystemPrompt(<<>>), outcome |-> o,
     received |-> 0]

\* received: the lines of the body that had arrived when the call ended
AgentRequest(i, sys, resp) ==
    [to |-> "agent", idx |-> i, system |-> sys, outcome |-> resp.outcome,
     received |-> Len(resp.lines)]

\* knowledge_entries = []; plan = await spin_up_orchestrator(query)
AwaitPlan ==
    /\ pc = "plan"
    /\ \E up \in ChatUpstreams :
         LET r == IF planner = "placeholder" THEN Returned(PlaceholderPlan, 0)
                  ELSE spin_up_orchestrator("GOOGLE_API_KEY" \in env, up)
         IN /\ requests' = IF r.sent = 1
                           THEN Append(requests, PlannerRequest(up.outcome))
                           ELSE requests
            /\ IF r.kind = "return"
               THEN plan' = r.plan /\ pc' = "yield_plan" /\ exc' = exc
               ELSE plan' = plan /\ pc' = "except" /\ exc' = r.error
    /\ knowledge_entries' = <<>>
    /\ UNCHANGED <<env, planner, agent_idx, pending, events, delivered>>

\* mutation: the plan event is emitted twice
YieldPlanTwice ==
    /\ pc = "yield_plan"
    /\ events' = events \o <<PlanEvent(plan), PlanEvent(plan)>>
    /\ pc' = "loop"
    /\ UNCHANGED <<env, planner, plan, agent_idx, knowledge_entries, pending,
                   exc, requests, delivered>>

\* yield the plan event
YieldPlan ==
    /\ pc = "yield_plan"
    /\ events' = Append(events, PlanEvent(plan))
    /\ pc' = "loop"
    /\ UNCHANGED <<env, planner, plan, agent_idx, knowledge_entries, pending,
                   exc, requests, delivered>>

\* for agent_idx, agent in enumerate(plan.agents): yield agentStart
YieldAgentStart ==
    /\ pc = "loop"
    /\ agent_idx <= Len(plan.agents)
    /\ events' = Append(events, AgentStartEvent(plan.agents[agent_idx]))
    /\ pc' = "call"
    /\ UNCHANGED <<env, planner, plan, agent_idx, knowledge_entries, pending,
                   exc, requests, delivered>>

\* mutation: a plan without agents ends the stream with an error event
FinishAbortsEmpty ==
    /\ pc = "loop"
    /\ agent_idx > Len(plan.agents)
    /\ events' = IF plan.agents = <<>>
                 THEN Append(events, ErrorEvent("no agents")) ELSE events
    /\ pc' = "done"
    /\ UNCHANGED <<env, planner, plan, agent_idx, knowledge_entries, pending,
                   exc, requests, delivered>>

\* mutation: the generator does not return when the loop is exhausted
FinishNever ==
    /\ pc = "loop"
    /\ agent_idx > Len(plan.agents)
    /\ UNCHANGED <<env, planner, pc, plan, agent_idx, knowledge_entries, pending,
                   exc, events, requests, delivered>>

\* the loop is exhausted: the generator returns
Finish ==
    /\ pc = "loop"
    /\ agent_idx > Len(plan.agents)
    /\ pc' = "done"
    /\ UNCHANGED <<env, planner, plan, agent_idx, knowledge_entries, pending,
                   exc, events, requests, delivered>>

\* mutation: a failed call raises instead of yielding the error chunk
CallAgentRaises ==
    /\ pc = "call"
    /\ IF "GOOGLE_API_KEY" \notin env /\ "GEMINI_API_KEY" \notin env
       THEN /\ exc' = "GEMINI_API_KEY or GOOGLE_API_KEY not set"
            /\ pc' = "except"
            /\ UNCHANGED <<pending, requests, delivered>>
       ELSE \E resp \in AgentResponses :
            /\ requests' = Append(requests,
                 AgentRequest(agent_idx, SystemPrompt(knowledge_entries),
                              resp))
            /\ delivered' = Append(delivered, <<>>)
            /\ IF resp.outcome = "ok"
               THEN pending' = resp.lines /\ pc' = "stream" /\ exc' = exc
               ELSE pending' = <<>> /\ pc' = "except" /\ exc' = resp.outcome
    /\ UNCHANGED <<env, planner, plan, agent_idx, knowledge_entries, events>>

\* mutation: the lines are yielded as they arrive, so the lines received
\* before a failure come out ahead of the error chunk
CallAgentStreaming ==
    /\ pc = "call"
    /\ IF "GOOGLE_API_KEY" \notin env /\ "GEMINI_API_KEY" \notin env
       THEN /\ exc' = "GEMINI_API_KEY or GOOGLE_API_KEY not set"
            /\ pc' = "except"
            /\ UNCHANGED <<pending, requests, delivered>>
       ELSE \E resp \in AgentResponses :
            /\ requests' = Append(requests,
                 AgentRequest(agent_idx, SystemPrompt(knowledge_entries),
                              resp))
            /\ pending' = IF resp.outcome = "ok" THEN resp.lines
                          ELSE resp.lines \o <<ErrorChunk(resp.outcome)>>
            /\ delivered' = Append(delivered, <<>>)
            /\ pc' = "stream"
            /\ exc' = exc
    /\ UNCHANGED <<env, planner, plan, agent_idx, knowledge_entries, events>>

\* build the system prompt and start call_ai_agent: read the key, post the
\* request, check the status; the body's lines or the error chunk are pending
CallAgent ==
    /\ pc = "call"
    /\ IF "GOOGLE_API_KEY" \notin env /\ "GEMINI_API_KEY" \notin env
       THEN /\ exc' = "GEMINI_API_KEY or GOOGLE_API_KEY not set"
            /\ pc' = "except"
            /\ UNCHANGED <<pending, requests, delivered>>
       ELSE \E resp \in AgentResponses :
            /\ requests' = Append(requests,
                 AgentRequest(agent_idx, SystemPrompt(knowledge_entries),
                              resp))
            /\ pending' = IF resp.outcome = "ok" THEN resp.lines
                          ELSE <<ErrorChunk(resp.outcome)>>
            /\ delivered' = Append(delivered, <<>>)
            /\ pc' = "stream"
            /\ exc' = exc
    /\ UNCHANGED <<env, planner, plan, agent_idx, knowledge_entries, events>>

\* call_ai_agent: a line whose strip() is empty is not yielded
SkipBlank ==
    /\ pc = "stream"
    /\ pending # <<>>
    /\ IsBlank(Head(pending))
    /\ pending' = Tail(pending)
    /\ UNCHANGED <<env, planner, pc, plan, agent_idx, knowledge_entries, exc,
                   events, requests, delivered>>

\* mutation: a chunk that starts with "data: " is consumed but not emitted
ForwardLineDropsSse ==
    /\ pc = "stream"
    /\ pending # <<>>
    /\ ~IsBlank(Head(pending))
    /\ delivered' = [delivered EXCEPT ![Len(delivered)] = Append(@, Head(pending))]
    /\ events' = IF Head(pending).sse THEN events
                 ELSE Append(events, Frame(Head(pending)))
    /\ pending' = Tail(pending)
    /\ UNCHANGED <<env, planner, pc, plan, agent_idx, knowledge_entries, exc,
                   requests>>

\* call_ai_agent yields a chunk; stream_generator frames and yields it
ForwardLine ==
    /\ pc = "stream"
    /\ pending # <<>>
    /\ ~IsBlank(Head(pending))
    /\ delivered' = [delivered EXCEPT ![Len(delivered)] = Append(@, Head(pending))]
    /\ events' = Append(events, Frame(Head(pending)))
    /\ pending' = Tail(pending)
    /\ UNCHANGED <<env, planner, pc, plan, agent_idx, knowledge_entries, exc,
                   requests>>

\* mutation: the loop steps over the next agent
YieldAgentEndSkip ==
    /\ pc = "stream"
    /\ pending = <<>>
    /\ events' = Append(events, AgentEndEvent(plan.agents[agent_idx]))
    /\ agent_idx' = agent_idx + 2
    /\ pc' = "loop"
    /\ UNCHANGED <<env, planner, plan, knowledge_entries, pending, exc,
                   requests, delivered>>

\* the agent's stream is exhausted: yield agentEnd, go to the next agent
YieldAgentEnd ==
    /\ pc = "stream"
    /\ pending = <<>>
    /\ events' = Append(events, AgentEndEvent(plan.agents[agent_idx]))
    /\ agent_idx' = agent_idx + 1
    /\ pc' = "loop"
    /\ UNCHANGED <<env, planner, plan, knowledge_entries, pending, exc,
                   requests, delivered>>

\* mutation: after the error event the loop carries on with the next agent
YieldErrorContinue ==
    /\ pc = "except"
    /\ events' = Append(events, ErrorEvent(exc))
    /\ agent_idx' = agent_idx + 1
    /\ pc' = "loop"
    /\ UNCHANGED <<env, planner, plan, knowledge_entries, pending,
                   exc, requests, delivered>>

\* except Exception as e: yield the error event; the generator returns
YieldError ==
    /\ pc = "except"
    /\ events' = Append(events, ErrorEvent(exc))
    /\ pc' = "done"
    /\ UNCHANGED <<env, planner, plan, agent_idx, knowledge_entries, pending,
                   exc, requests, delivered>>

\* mutation: the cancellation is handled like an exception: an error event
\* is emitted for it
DisconnectCaught ==
    /\ pc \in {"plan", "yield_plan", "loop", "call", "stream", "except"}
    /\ events' = Append(events, ErrorEvent("cancelled"))
    /\ pc' = "cancelled"
    /\ UNCHANGED <<env, planner, plan, agent_idx, knowledge_entries, pending,
                   exc, requests, delivered>>

\* the client disconnects while the response is streamed: the task that runs
\* the generator is cancelled at its suspension point; the cancellation is
\* not an Exception, so neither except clause handles it and both
\* generators end there, closing the upstream client
Disconnect ==
    /\ pc \in {"plan", "yield_plan", "loop", "call", "stream", "except"}
    /\ pc' = "cancelled"
    /\ UNCHANGED <<env, planner, plan, agent_idx, knowledge_entries, pending,
                   exc, events, requests, delivered>>

\* mutation: the plan is one object of the process, not a local of the
\* request, so the request that resumes finds the other's plan
SwitchSharedPlan ==
    /\ running \in {1, 2}
    /\ suspended' = Locals(pc, plan, agent_idx, knowledge_entries, pending, exc,
                           events, requests, delivered)
    /\ pc' = suspended.pc
    /\ plan' = plan
    /\ agent_idx' = suspended.agent_idx
    /\ knowledge_entries' = suspended.knowledge_entries
    /\ pending' = suspended.pending
    /\ exc' = suspended.exc
    /\ events' = suspended.events
    /\ requests' = suspended.requests
    /\ delivered' = suspended.delivered
    /\ running' = 3 - running
    /\ UNCHANGED <<env, planner>>

\* the event loop suspends the running request at an await or a yield and
\* resumes the other one: each generator frame keeps its own locals
Switch ==
    /\ running \in {1, 2}
    /\ suspended' = Locals(pc, plan, agent_idx, knowledge_entries, pending, exc,
                           events, requests, delivered)
    /\ pc' = suspended.pc
    /\ plan' = suspended.plan
    /\ agent_idx' = suspended.agent_idx
    /\ knowledge_entries' = suspended.knowledge_entries
    /\ pending' = suspended.pending
    /\ exc' = suspended.exc
    /\ events' = suspended.events
    /\ requests' = suspended.requests
    /\ delivered' = suspended.delivered
    /\ running' = 3 - running
    /\ UNCHANGED <<env, planner>>

\* the agent answers drawn when two requests run
TwoBodies ==
    {<<TextLine(TRUE, "a")>>,
     <<BlankLine, TextLine(FALSE, "b"), TextLine(TRUE, "a")>>,
     <<ErrorChunk("timeout")>>}

\* ------------------------------------------------- services/search.py
MAX_RESULTS_SERPAPI == 10
MAX_RESULTS_BRAVE == 5

Min(a, b) == IF a <= b THEN a ELSE b

\* one entry of a vendor's result list; a position or rank of 0 stands for
\* a field the entry does not carry (vendor positions are 1-based)
VendorEntry(i, kind) ==
    [title |-> i, url |-> i, description |-> i,
     position |-> IF kind = "position" THEN 100 + i ELSE 0,
     rank |-> IF kind = "rank" THEN 200 + i ELSE 0]

\* ZenSERP lists: every entry carries its position, but for at most one
\* entry, which carries a rank instead or neither
SerpLists ==
    {[k \in 1..n |-> VendorEntry(k, IF k = d THEN kind ELSE "position")] :
        n \in 0..MaxVendor, d \in 0..MaxVendor, kind \in {"rank", "none"}}

\* Brave lists: the entries carry no position
BraveLists == {[k \in 1..n |-> VendorEntry(k, "none")] : n \in 0..MaxVendor}

VendorFailures == {"timeout", "connect_error", "http_error", "bad_body"}

VendorResponses(lists) ==
    {[outcome |-> o, entries |-> <<>>] : o \in VendorFailures}
    \cup {[outcome |-> "ok", entries |-> l] : l \in lists}

\* what the vendor behind a provider name may answer
ResponsesOf(name) ==
    IF name = "serpapi" THEN VendorResponses(SerpLists)
    ELSE VendorResponses(BraveLists)

\* the SearchResult model: position is a required integer
SearchResult(position, title, link, snippet) ==
    [ok |-> position # 0,
     value |-> [position |-> position, title |-> title, link |-> link,
                snippet |-> snippet]]

SearchReturn(res, n) == [results |-> res, sent |-> n, raised |-> FALSE]

\* mutation: the vendor's list is not cut to the maximum
search_serpapi_uncapped(environ, resp) ==
    IF "ZENSERP_API_KEY" \notin environ /\ "SERPAPI_API_KEY" \notin environ
    THEN SearchReturn(<<>>, 0)
    ELSE IF resp.outcome \in {"timeout", "connect_error", "bad_body"}
    THEN SearchReturn(<<>>, 1)
    ELSE LET organic == IF resp.outcome = "ok" THEN resp.entries ELSE <<>>
             built == [k \in 1..Len(organic) |->
                          SearchResult(
                              IF organic[k].position # 0 THEN organic[k].position
                              ELSE organic[k].rank,
                              organic[k].title, organic[k].url,
                              organic[k].description)]
         IN IF \E k \in 1..Len(organic) : ~built[k].ok THEN SearchReturn(<<>>, 1)
            ELSE SearchReturn([k \in 1..Len(organic) |-> built[k].value], 1)

search_serpapi(environ, resp) ==
    IF "ZENSERP_API_KEY" \notin environ /\ "SERPAPI_API_KEY" \notin environ
    THEN SearchReturn(<<>>, 0)
    ELSE IF resp.outcome \in {"timeout", "connect_error", "bad_body"}
    THEN SearchReturn(<<>>, 1)
    ELSE LET organic == IF resp.outcome = "ok" THEN resp.entries ELSE <<>>
             cut == SubSeq(organic, 1, Min(Len(organic), MAX_RESULTS_SERPAPI))
             built == [k \in 1..Len(cut) |->
                          SearchResult(
                              IF cut[k].position # 0 THEN cut[k].position
                              ELSE cut[k].rank,
                              cut[k].title, cut[k].url, cut[k].description)]
         IN IF \E k \in 1..Len(cut) : ~built[k].ok THEN SearchReturn(<<>>, 1)
            ELSE SearchReturn([k \in 1..Len(cut) |-> built[k].value], 1)

\* mutation: the request is sent without a credential
search_brave_keyless(environ, resp) ==
    IF resp.outcome \in {"timeout", "connect_error", "bad_body"}
    THEN SearchReturn(<<>>, 1)
    ELSE LET web_results == IF resp.outcome = "ok" THEN resp.entries ELSE <<>>
             cut == SubSeq(web_results, 1,
                           Min(Len(web_results), MAX_RESULTS_BRAVE))
         IN SearchReturn(
                [k \in 1..Len(cut) |->
                    SearchResult(k, cut[k].title, cut[k].url,
                                 cut[k].description).value], 1)

search_brave(environ, resp) ==
    IF "BRAVE_SEARCH_API_KEY" \notin environ /\ "BRAVE_API_KEY" \notin environ
    THEN SearchReturn(<<>>, 0)
    ELSE IF resp.outcome \in {"timeout", "connect_error", "bad_body"}
    THEN SearchReturn(<<>>, 1)
    ELSE LET web_results == IF resp.outcome = "ok" THEN resp.entries ELSE <<>>
             cut == SubSeq(web_results, 1,
                           Min(Len(web_results), MAX_RESULTS_BRAVE))
             built == [k \in 1..Len(cut) |->
                          SearchResult(k, cut[k].title, cut[k].url,
                                       cut[k].description)]
         IN IF \E k \in 1..Len(cut) : ~built[k].ok THEN SearchReturn(<<>>, 1)
            ELSE SearchReturn([k \in 1..Len(cut) |-> built[k].value], 1)

\* provider_override or os.getenv("SEARCH_PROVIDER", "brave")
ResolveProvider(override, default) ==
    IF override # "" THEN override
    ELSE IF default = "UNSET" THEN "brave" ELSE default

\* mutation: a name that is not known is served by brave
search_unknown_as_brave(override, default, environ, resp) ==
    LET name == ResolveProvider(override, default) IN
    IF name = "serpapi" THEN search_serpapi(environ, resp)
    ELSE search_brave(environ, resp)

\* SearchService.search
search(override, default, environ, resp) ==
    LET name == ResolveProvider(override, default) IN
    IF name = "brave" THEN search_brave(environ, resp)
    ELSE IF name = "serpapi" THEN search_serpapi(environ, resp)
    ELSE SearchReturn(<<>>, 0)

SearchCredentials ==
    {"BRAVE_SEARCH_API_KEY", "BRAVE_API_KEY", "ZENSERP_API_KEY", "SERPAPI_API_KEY"}

NotSearched ==
    [called |-> FALSE, results |-> <<>>, sent |-> 0, raised |-> FALSE,
     vendor |-> [outcome |-> "none", entries |-> <<>>]]

SearchInit ==
    /\ search_env \in SUBSET SearchCredentials
    /\ search_provider_env \in {"UNSET", "brave", "serpapi", "bing"}
    /\ provider_override \in {"", "brave", "serpapi", "bing", "Brave"}
    /\ search_out = NotSearched

SearchIdle ==
    /\ search_env = {}
    /\ search_provider_env = "UNSET"
    /\ provider_override = ""
    /\ search_out = NotSearched

\* await SearchService.search(query, provider_override)
DoSearch ==
    /\ ~search_out.called
    /\ \E resp \in ResponsesOf(
                     ResolveProvider(provider_override, search_provider_env)) :
         LET r == search(provider_override, search_provider_env,
                         search_env, resp)
         IN search_out' = [called |-> TRUE, results |-> r.results,
                           sent |-> r.sent, raised |-> r.raised,
                           vendor |-> resp]
    /\ UNCHANGED <<search_env, search_provider_env, provider_override>>

\* ------------------------------------------------- routes/search.py
\* A text field is None, the empty string, white space, or a text.
NoneValue == "None"

Truthy(v) == v \notin {NoneValue, ""}

\* str.strip() and str.lower() on the texts of the model
StripText(v) ==
    CASE v = " " -> ""
      [] v = " Brave " -> "Brave"
      [] OTHER -> v

LowerText(v) == IF v = "Brave" THEN "brave" ELSE v

\* EmailStr accepts None and a well-formed address
EmailStr(v) == v \in {NoneValue, "j@x.io"}

RequestBodies ==
    [name : {NoneValue, "", " ", "Jane"},
     email : {NoneValue, "bad", "j@x.io"},
     extra_context : {NoneValue, "ctx"},
     search_providers :
         SeqsUpTo({"brave", "serpapi", "bing", " Brave ", ""}, MaxProviders),
     include_plan : BOOLEAN,
     plan_provider : {"google", "anthropic"}]

\* os.getenv("SEARCH_PROVIDER", "brave"), read when the module is loaded
DEFAULT_SEARCH_PROVIDER ==
    IF search_provider_env = "UNSET" THEN "brave" ELSE search_provider_env

\* the loop over providers: skip empty names, strip and lower the others,
\* keep the first occurrence of each
RECURSIVE NormalizeProviders(_, _)
NormalizeProviders(providers, acc) ==
    IF providers = <<>> THEN acc
    ELSE LET name == Head(providers)
             normalized == LowerText(StripText(name))
         IN NormalizeProviders(Tail(providers),
                IF Truthy(name) /\ normalized # ""
                   /\ \A i \in 1..Len(acc) : acc[i] # normalized
                THEN Append(acc, normalized) ELSE acc)

NoResponse == [status |-> 0, search_results |-> <<>>, plan |-> NoPlan]

\* HTTPException and the validation error carry no body of the response model
ErrorResponse(code) == [status |-> code, search_results |-> <<>>, plan |-> NoPlan]

\* what a vendor may answer in a person search: a failure, or two entries
PersonResponsesOf(name) ==
    {[outcome |-> o, entries |-> <<>>] : o \in VendorFailures}
    \cup {[outcome |-> "ok",
           entries |-> [k \in 1..2 |->
               VendorEntry(k, IF name = "serpapi" THEN "position" ELSE "none")]]}

\* what the plan provider may answer in a person search
PersonPlanUpstreams ==
    {[outcome |-> "timeout", content |-> <<>>]}
    \cup {[outcome |-> "ok", content |-> <<Open, c>>] : c \in Closers}

PersonInit ==
    /\ request_body \in RequestBodies
    /\ person_pc = "received"
    /\ query = <<>>
    /\ normalized_providers = <<>>
    /\ provider_results = <<>>
    /\ vendor_answers = <<>>
    /\ person_plan = NotCalled
    /\ upstream_calls = <<>>
    /\ response = NoResponse

PersonIdle ==
    /\ request_body = [name |-> NoneValue, email |-> NoneValue,
                       extra_context |-> NoneValue, search_providers |-> <<>>,
                       include_plan |-> FALSE, plan_provider |-> "google"]
    /\ person_pc = "idle"
    /\ query = <<>>
    /\ normalized_providers = <<>>
    /\ provider_results = <<>>
    /\ vendor_answers = <<>>
    /\ person_plan = NotCalled
    /\ upstream_calls = <<>>
    /\ response = NoResponse

\* mutation: the body is accepted without a name or an email
ValidateBodyLenient ==
    /\ person_pc = "received"
    /\ IF ~EmailStr(request_body.email)
       THEN /\ response' = ErrorResponse(422)
            /\ person_pc' = "done"
       ELSE /\ person_pc' = "validated"
            /\ UNCHANGED response
    /\ UNCHANGED <<request_body, query, normalized_providers, provider_results,
                   vendor_answers, person_plan, upstream_calls>>

\* PersonSearchRequest: ensure_contact_info runs before the field
\* validation; a validation error is answered with status 422
ValidateBody ==
    /\ person_pc = "received"
    /\ IF ~Truthy(request_body.name) /\ ~Truthy(request_body.email)
       THEN /\ response' = ErrorResponse(422)
            /\ person_pc' = "done"
       ELSE IF ~EmailStr(request_body.email)
       THEN /\ response' = ErrorResponse(422)
            /\ person_pc' = "done"
       ELSE /\ person_pc' = "validated"
            /\ UNCHANGED response
    /\ UNCHANGED <<request_body, query, normalized_providers, provider_results,
                   vendor_answers, person_plan, upstream_calls>>

\* person_search up to the search loop: the query and the provider names
BuildQuery ==
    /\ person_pc = "validated"
    /\ LET parts == <<request_body.name, request_body.email,
                      request_body.extra_context>>
           kept(part) == Truthy(part) /\ StripText(part) # ""
           q == [i \in 1..Len(SelectSeq(parts, kept)) |->
                    StripText(SelectSeq(parts, kept)[i])]
           providers == IF request_body.search_providers # <<>>
                        THEN request_body.search_providers
                        ELSE <<DEFAULT_SEARCH_PROVIDER>>
           found == NormalizeProviders(providers, <<>>)
       IN IF q = <<>>
          THEN /\ response' = ErrorResponse(400)
               /\ person_pc' = "done"
               /\ UNCHANGED <<query, normalized_providers>>
          ELSE /\ query' = q
               /\ normalized_providers' =
                     IF found = <<>> THEN <<DEFAULT_SEARCH_PROVIDER>> ELSE found
               /\ person_pc' = "searching"
               /\ UNCHANGED response
    /\ UNCHANGED <<request_body, provider_results, vendor_answers, person_plan,
                   upstream_calls>>

\* mutation: a provider whose upstream call fails ends the request
SearchProviderFailFast ==
    /\ person_pc = "searching"
    /\ Len(provider_results) < Len(normalized_providers)
    /\ LET name == normalized_providers[Len(provider_results) + 1] IN
       \E resp \in PersonResponsesOf(name) :
         LET r == search(name, search_provider_env, search_env, resp) IN
         /\ vendor_answers' = Append(vendor_answers, resp)
         /\ upstream_calls' = IF r.sent = 1 THEN Append(upstream_calls, name)
                              ELSE upstream_calls
         /\ IF r.raised \/ (r.sent = 1 /\ resp.outcome \in VendorFailures)
            THEN /\ response' = ErrorResponse(500)
                 /\ person_pc' = "done"
                 /\ UNCHANGED provider_results
            ELSE /\ provider_results' =
                       Append(provider_results,
                              [provider |-> name, results |-> r.results])
                 /\ UNCHANGED <<response, person_pc>>
    /\ UNCHANGED <<request_body, query, normalized_providers, person_plan>>

\* one turn of the search loop
SearchProvider ==
    /\ person_pc = "searching"
    /\ Len(provider_results) < Len(normalized_providers)
    /\ LET name == normalized_providers[Len(provider_results) + 1] IN
       \E resp \in PersonResponsesOf(name) :
         LET r == search(name, search_provider_env, search_env, resp) IN
         /\ vendor_answers' = Append(vendor_answers, resp)
         /\ upstream_calls' = IF r.sent = 1 THEN Append(upstream_calls, name)
                              ELSE upstream_calls
         /\ IF r.raised
            THEN /\ response' = ErrorResponse(500)
                 /\ person_pc' = "done"
                 /\ UNCHANGED provider_results
            ELSE /\ provider_results' =
                       Append(provider_results,
                              [provider |-> name, results |-> r.results])
                 /\ UNCHANGED <<response, person_pc>>
    /\ UNCHANGED <<request_body, query, normalized_providers, person_plan>>

\* the plan, when the request asks for one
GeneratePlan ==
    /\ person_pc = "searching"
    /\ Len(provider_results) = Len(normalized_providers)
    /\ request_body.include_plan
    /\ \E key \in BOOLEAN, up \in PersonPlanUpstreams :
         LET r == GeneratePlanFor(request_body.plan_provider, key, up) IN
         /\ person_plan' = r
         /\ upstream_calls' = IF r.sent = 1 THEN Append(upstream_calls, "plan")
                              ELSE upstream_calls
         /\ IF r.kind = "raise"
            THEN /\ response' = ErrorResponse(500)
                 /\ person_pc' = "done"
            ELSE /\ person_pc' = "responding"
                 /\ UNCHANGED response
    /\ UNCHANGED <<request_body, query, normalized_providers, provider_results,
                   vendor_answers>>

\* return PersonSearchResponse(...)
Respond ==
    /\ \/ person_pc = "responding"
       \/ /\ person_pc = "searching"
          /\ Len(provider_results) = Len(normalized_providers)
          /\ ~request_body.include_plan
    /\ response' = [status |-> 200, search_results |-> provider_results,
                    plan |-> person_plan.plan]
    /\ person_pc' = "done"
    /\ UNCHANGED <<request_body, query, normalized_providers, provider_results,
                   vendor_answers, person_plan, upstream_calls>>

\* ----------------------------------------- services/persona_extractor.py
JOB_TITLE_LIMIT == 100
BIO_LIMIT == 500

\* A title is a sequence of characters: the pipe, white space, the dash, a
\* word character and a punctuation mark.
Pipe == "|"
Dash == "-"
Word == "a"
Punct == "!"
TitleChars == {Pipe, Ws, Dash, Word, Punct}

\* a field of a result that is null, and a key the result does not have
NullText == <<"None">>
MissingText == <<"missing">>
Missing == "missing"

\* a run of n word characters
Run(n) == [i \in 1..n |-> Word]

Titles ==
    SeqsUpTo(TitleChars, MaxTitle)
    \cup {<<Word, Pipe>> \o Run(n) : n \in {JOB_TITLE_LIMIT, JOB_TITLE_LIMIT + 1}}
    \cup {<<Word, Ws, Dash, Ws, Word>>, <<Word, Ws, Dash, Ws, Word, Pipe, Word>>}

Snippets ==
    {"", "plain text", "5 years of experience", "mail j@x.io", "works at Acme",
     "see github.com/jane", "x501"}

Urls == {"u", "linkedin.com/in/jane"}

\* len(snippet); "x501" stands for a text of 501 characters
SnippetLength(snippet) ==
    CASE snippet = "" -> 0
      [] snippet = "plain text" -> 10
      [] snippet = "5 years of experience" -> 21
      [] snippet = "mail j@x.io" -> 11
      [] snippet = "works at Acme" -> 13
      [] snippet = "see github.com/jane" -> 19
      [] OTHER -> 501

\* snippet[:500]; "x500" stands for the first 500 characters of "x501"
Bio(snippet) == IF SnippetLength(snippet) > BIO_LIMIT THEN "x500" ELSE snippet

\* the experience pattern on the snippets of the model
ExperienceOf(snippet) ==
    IF snippet = "5 years of experience" THEN "5+ years" ELSE NoneValue

\* the email pattern on the snippets of the model
EmailOf(snippet) == IF snippet = "mail j@x.io" THEN "j@x.io" ELSE NoneValue

\* the company pattern on the snippets of the model
CompanyOf(snippet) == IF snippet = "works at Acme" THEN "Acme" ELSE NoneValue

\* the social patterns on snippet + " " + url, joined with " | "
SocialOf(snippet, url) ==
    IF url = "linkedin.com/in/jane"
    THEN CASE snippet = "mail j@x.io" -> "linkedin: @x.io linkedin"
           [] snippet = "see github.com/jane" ->
                  "linkedin: linkedin.com/in/ | github: github.com/jane"
           [] OTHER -> "linkedin: linkedin.com/in/"
    ELSE IF snippet = "see github.com/jane" THEN "github: github.com/jane"
    ELSE NoneValue

\* re.sub(r"[^\w\s]", "", s)
IsWordOrSpace(c) == c \in {Word, Ws}
ReSubNonWord(s) == SelectSeq(s, IsWordOrSpace)

\* the name heuristic: persona["full_name"], NullText when it stays None
FullNameOf(title) ==
    LET name_part == IF Contains(title, <<Pipe>>)
                     THEN Strip(Split(title, <<Pipe>>)[1])
                     ELSE Strip(Split(title, <<Ws, Dash, Ws>>)[1])
        cleaned == Strip(ReSubNonWord(name_part))
    IN IF cleaned # <<>> THEN cleaned ELSE NullText

\* mutation: the job title is not cut to its limit
JobTitleOfUncut(title) ==
    IF Contains(title, <<Pipe>>)
    THEN LET title_part == IF Len(Split(title, <<Pipe>>)) > 1
                           THEN Strip(Split(title, <<Pipe>>)[2]) ELSE <<>>
         IN IF title_part # <<>> THEN title_part ELSE NullText
    ELSE NullText

\* the job title heuristic: persona["job_title"], NullText when it stays None
JobTitleOf(title) ==
    IF Contains(title, <<Pipe>>)
    THEN LET title_part == IF Len(Split(title, <<Pipe>>)) > 1
                           THEN Strip(Split(title, <<Pipe>>)[2]) ELSE <<>>
         IN IF title_part # <<>>
            THEN SubSeq(title_part, 1, Min(Len(title_part), JOB_TITLE_LIMIT))
            ELSE NullText
    ELSE NullText

\* an entry of a result list: a mapping with its three fields, or something
\* that is not a mapping
ResultEntry(t, u, s) == [isDict |-> TRUE, title |-> t, url |-> u, snippet |-> s]
NotAMapping ==
    [isDict |-> FALSE, title |-> MissingText, url |-> Missing, snippet |-> Missing]

PersonaFields ==
    {"full_name", "job_title", "company", "image_url", "experience", "email",
     "social_media", "source_url", "bio"}

NoPersona ==
    [full_name |-> NullText, job_title |-> NullText, company |-> NoneValue,
     image_url |-> NoneValue, experience |-> NoneValue, email |-> NoneValue,
     social_media |-> NoneValue, source_url |-> NoneValue, bio |-> NoneValue]

PersonaRaised == [raised |-> TRUE, persona |-> NoPersona]

\* PersonaExtractor.extract_persona: result.get(key, "") gives the default
\* for a key the result does not have and None for a null field; slicing
\* None, testing "|" in None and concatenating None raise TypeError
extract_persona(result) ==
    IF ~result.isDict THEN PersonaRaised
    ELSE IF result.snippet = NoneValue THEN PersonaRaised
    ELSE IF result.title = NullText THEN PersonaRaised
    ELSE IF result.url = NoneValue THEN PersonaRaised
    ELSE LET title == IF result.title = MissingText THEN <<>> ELSE result.title
             snippet == IF result.snippet = Missing THEN "" ELSE result.snippet
             url == IF result.url = Missing THEN "" ELSE result.url
         IN [raised |-> FALSE,
             persona |->
                [full_name |-> FullNameOf(title),
                 job_title |-> JobTitleOf(title),
                 company |-> CompanyOf(snippet),
                 image_url |-> NoneValue,
                 experience |-> ExperienceOf(snippet),
                 email |-> EmailOf(snippet),
                 social_media |-> SocialOf(snippet, url),
                 source_url |-> IF result.url = Missing THEN NoneValue ELSE url,
                 bio |-> Bio(snippet)]]

\* PersonaExtractor.extract_personas_from_results
RECURSIVE extract_personas_from_results(_)
extract_personas_from_results(entries) ==
    IF entries = <<>> THEN [raised |-> FALSE, personas |-> <<>>]
    ELSE IF ~Head(entries).isDict
    THEN extract_personas_from_results(Tail(entries))
    ELSE LET first == extract_persona(Head(entries))
             rest == extract_personas_from_results(Tail(entries))
         IN IF first.raised \/ rest.raised
            THEN [raised |-> TRUE, personas |-> <<>>]
            ELSE [raised |-> FALSE, personas |-> <<first.persona>> \o rest.personas]

\* ------------------------------------------------ routes/llm.py, personas
GoodEntry == ResultEntry(<<Word, Pipe, Word>>, "u", "plain text")

\* single results: every title, and every combination of the other fields
Entries ==
    {ResultEntry(t, "u", "plain text") : t \in Titles}
    \cup {ResultEntry(t, u, s) :
            t \in {<<Word>>, MissingText, NullText},
            u \in Urls \cup {Missing, NoneValue},
            s \in Snippets \cup {Missing, NoneValue}}
    \cup {NotAMapping}

\* entries of the rest of the list
BatchEntries ==
    {NotAMapping, GoodEntry,
     ResultEntry(<<Word>>, "linkedin.com/in/jane", "mail j@x.io"),
     ResultEntry(<<Word>>, "u", NoneValue),
     ResultEntry(MissingText, Missing, Missing)}

NotExtracted == [raised |-> FALSE, persona |-> NoPersona]
NoneExtracted == [raised |-> FALSE, personas |-> <<>>]

PersonaInit ==
    /\ search_results \in
          {<<e>> : e \in Entries}
          \cup {<<GoodEntry>> \o t : t \in SeqsUpTo(BatchEntries, MaxEntries)}
    /\ persona_pc = "start"
    /\ primary_persona = NotExtracted
    /\ additional_personas = NoneExtracted

PersonaIdle ==
    /\ search_results = <<>>
    /\ persona_pc = "idle"
    /\ primary_persona = NotExtracted
    /\ additional_personas = NoneExtracted

\* primary_persona = PersonaExtractor.extract_persona(search_results[0])
ExtractPrimary ==
    /\ persona_pc = "start"
    /\ search_results # <<>>
    /\ LET r == extract_persona(search_results[1]) IN
       /\ primary_persona' = r
       /\ persona_pc' = IF r.raised THEN "failed" ELSE "primary"
    /\ UNCHANGED <<search_results, additional_personas>>

\* additional_personas = extract_personas_from_results(search_results[1:])
ExtractAdditional ==
    /\ persona_pc = "primary"
    /\ Len(search_results) > 1
    /\ LET r == extract_personas_from_results(Tail(search_results)) IN
       /\ additional_personas' = r
       /\ persona_pc' = IF r.raised THEN "failed" ELSE "done"
    /\ UNCHANGED <<search_results, primary_persona>>

\* return {"ok": True, "results": out}
ReturnPersonas ==
    /\ persona_pc = "primary"
    /\ Len(search_results) = 1
    /\ persona_pc' = "done"
    /\ UNCHANGED <<search_results, primary_persona, additional_personas>>

\* ---------------------------------------------------------- specifications
Init ==
    PlanIdle /\ ChatInit /\ TwoIdle /\ SearchIdle /\ PersonIdle /\ PersonaIdle

Next ==
    \/ AwaitPlan /\ UNCHANGED nonChatVars
    \/ YieldPlan /\ UNCHANGED nonChatVars
    \/ YieldAgentStart /\ UNCHANGED nonChatVars
    \/ CallAgent /\ UNCHANGED nonChatVars
    \/ SkipBlank /\ UNCHANGED nonChatVars
    \/ ForwardLine /\ UNCHANGED nonChatVars
    \/ YieldAgentEnd /\ UNCHANGED nonChatVars
    \/ YieldError /\ UNCHANGED nonChatVars
    \/ Finish /\ UNCHANGED nonChatVars

Spec == Init /\ [][Next]_vars

\* a chat request whose consumer keeps iterating the generator and whose
\* upstream calls each return or fail: a step that can be taken is taken
\* (with upstream bodies of at most MaxLiveLines lines)
NextLive ==
    \/ AwaitPlan /\ UNCHANGED nonChatVars
    \/ YieldPlan /\ UNCHANGED nonChatVars
    \/ YieldAgentStart /\ UNCHANGED nonChatVars
    \/ CallAgent /\ Len(pending') <= MaxLiveLines /\ UNCHANGED nonChatVars
    \/ SkipBlank /\ UNCHANGED nonChatVars
    \/ ForwardLine /\ UNCHANGED nonChatVars
    \/ YieldAgentEnd /\ UNCHANGED nonChatVars
    \/ YieldError /\ UNCHANGED nonChatVars
    \/ Finish /\ UNCHANGED nonChatVars

SpecLive == Init /\ [][NextLive]_vars /\ WF_vars(NextLive)

\* two chat requests served by one event loop, interleaved at every
\* suspension point
InitTwo ==
    /\ PlanIdle /\ ChatInit /\ SearchIdle /\ PersonIdle /\ PersonaIdle
    /\ suspended = StartLocals
    /\ running = 1

NextTwo ==
    \/ AwaitPlan /\ UNCHANGED nonChatVars
    \/ YieldPlan /\ UNCHANGED nonChatVars
    \/ YieldAgentStart /\ UNCHANGED nonChatVars
    \/ CallAgent /\ (pending' \in TwoBodies \/ pc' = "except")
          /\ UNCHANGED nonChatVars
    \/ SkipBlank /\ UNCHANGED nonChatVars
    \/ ForwardLine /\ UNCHANGED nonChatVars
    \/ YieldAgentEnd /\ UNCHANGED nonChatVars
    \/ YieldError /\ UNCHANGED nonChatVars
    \/ Finish /\ UNCHANGED nonChatVars
    \/ Switch /\ UNCHANGED nonTwoVars

SpecTwo == InitTwo /\ [][NextTwo]_vars

\* a chat request whose client may disconnect
NextDisconnect ==
    \/ Next
    \/ Disconnect /\ UNCHANGED nonChatVars

SpecDisconnect == Init /\ [][NextDisconnect]_vars

InitPlan == PlanInit /\ ChatIdle /\ SearchIdle /\ PersonIdle /\ PersonaIdle

NextPlan == \E w \in Wrappings : Generate(w) /\ UNCHANGED nonPlanVars

SpecPlan == InitPlan /\ [][NextPlan]_vars

InitSearch == PlanIdle /\ ChatIdle /\ SearchInit /\ PersonIdle /\ PersonaIdle

NextSearch == DoSearch /\ UNCHANGED nonSearchVars

SpecSearch == InitSearch /\ [][NextSearch]_vars

InitPerson ==
    /\ PlanIdle /\ ChatIdle /\ PersonInit /\ PersonaIdle
    /\ search_env \in {{}, {"BRAVE_SEARCH_API_KEY", "ZENSERP_API_KEY"}}
    /\ search_provider_env = "UNSET"
    /\ provider_override = ""
    /\ search_out = NotSearched

NextPerson ==
    \/ ValidateBody /\ UNCHANGED nonPersonVars
    \/ BuildQuery /\ UNCHANGED nonPersonVars
    \/ SearchProvider /\ UNCHANGED nonPersonVars
    \/ GeneratePlan /\ UNCHANGED nonPersonVars
    \/ Respond /\ UNCHANGED nonPersonVars

SpecPerson == InitPerson /\ [][NextPerson]_vars

InitPersona ==
    PlanIdle /\ ChatIdle /\ SearchIdle /\ PersonIdle /\ PersonaInit

NextPersona ==
    \/ ExtractPrimary /\ UNCHANGED nonPersonaVars
    \/ ExtractAdditional /\ UNCHANGED nonPersonaVars
    \/ ReturnPersonas /\ UNCHANGED nonPersonaVars

SpecPersona == InitPersona /\ [][NextPersona]_vars

\* ------------------------------------------------------------- properties
TypeCount(t) == Cardinality({i \in 1..Len(events) : events[i].type = t})

IsMarker(e) == e.type \in {"agentStart", "agentEnd"}
Markers == SelectSeq(events, IsMarker)

\* AgentStart(1), AgentEnd(1), AgentStart(2), AgentEnd(2), ...
Expected(agents) ==
    [k \in 1..(2 * Len(agents)) |->
        IF k % 2 = 1 THEN AgentStartEvent(agents[(k + 1) \div 2])
        ELSE AgentEndEvent(agents[k \div 2])]

IsPrefix(s, t) == Len(s) <= Len(t) /\ SubSeq(t, 1, Len(s)) = s

IsAgentRequest(r) == r.to = "agent"
AgentExchanges == SelectSeq(requests, IsAgentRequest)

\* no exception is in flight or handled and no upstream call has failed
NoError == exc = "" /\ \A i \in 1..Len(requests) : requests[i].outcome = "ok"

C2_PairsInPlanOrder ==
    (NoError /\ plan # Unbound) =>
        /\ IsPrefix(Markers, Expected(plan.agents))
        /\ pc = "done" =>
              /\ Markers = Expected(plan.agents)
              /\ events[1] = PlanEvent(plan)
              /\ \A i \in 2..Len(events) :
                    events[i].type \in {"agentStart", "agentEnd", "raw"}

C2_Witness ==
    /\ pc = "done" /\ NoError /\ Len(plan.agents) = 2
    /\ TypeCount("raw") >= 2 /\ TypeCount("agentEnd") = 2

\* the end-to-end scenario: two agents, three chunks from the first call, a
\* timeout of the second call
TimeoutScenario ==
    /\ Len(plan.agents) = 2
    /\ Len(AgentExchanges) = 2
    /\ AgentExchanges[1].outcome = "ok"
    /\ Len(delivered[1]) = 3
    /\ AgentExchanges[2].outcome = "timeout"

\* C3: in the scenario the stream is Plan, AgentStart(1), three chunks,
\* AgentEnd(1), AgentStart(2), Error and ends there, with no AgentEnd(2).
C3_TimeoutEndsStream ==
    (pc = "done" /\ TimeoutScenario) =>
        /\ Len(events) = 8
        /\ [i \in 1..8 |-> events[i].type] =
              <<"plan", "agentStart", "raw", "raw", "raw", "agentEnd",
                "agentStart", "error">>

\* C4: once an exception is in flight the only thing that happens is that
\* the Error event with its message is appended and the generator returns:
\* no upstream call, no other event; the finished stream holds exactly one
\* Error event, the last one, carrying the message.
C4_ExceptionEndsStream ==
    /\ [](pc = "done" /\ exc # "" =>
            /\ events[Len(events)] = ErrorEvent(exc)
            /\ TypeCount("error") = 1)
    /\ [][pc = "except" =>
            /\ events' = Append(events, ErrorEvent(exc))
            /\ requests' = requests
            /\ pc' = "done"]_vars
    /\ [][pc = "done" => UNCHANGED <<events, requests>>]_vars

C4_Witness ==
    /\ pc = "done"
    /\ exc = "GEMINI_API_KEY or GOOGLE_API_KEY not set"
    /\ Len(events) = 3
    /\ events[3] = ErrorEvent(exc)

\* C5: no event follows an error-typed event, so a stream has at most one
\* error-typed event and that one is the last.
C5_ErrorIsFinal ==
    \A i \in 1..Len(events) : events[i].type = "error" => i = Len(events)

\* C6 (as claimed): call_ai_agent never raises into stream_generator, so
\* after the plan no exception is ever in flight.
C6_CallNeverRaises == ~(pc = "except" /\ plan # Unbound)

\* C6 (amended): a failure of the upstream call (timeout, network error,
\* non-2xx status) makes call_ai_agent yield exactly one error chunk with the
\* failure's message and end without raising; a missing credential raises
\* before any request is issued.
C6_CallFailureIsOneChunk ==
    /\ \A i \in 1..Len(delivered) :
          AgentExchanges[i].outcome # "ok" =>
              /\ delivered[i] \o (IF i = Len(delivered) THEN pending ELSE <<>>)
                    = <<ErrorChunk(AgentExchanges[i].outcome)>>
    /\ (pc = "except" /\ plan # Unbound) =>
          /\ exc = "GEMINI_API_KEY or GOOGLE_API_KEY not set"
          /\ env = {}
          /\ AgentExchanges = <<>>

C6_Witness ==
    /\ pc = "loop"
    /\ Len(delivered) = 1
    /\ AgentExchanges[1].outcome = "http_error"
    /\ delivered[1] = <<ErrorChunk("http_error")>>

\* the text does not hold a plan: not JSON, or JSON that is not an object
\* with a response and an agents field
NotAPlan(content) ==
    LET d == JsonLoads(ExtractJson(content)) IN
    ~d.ok \/ d.kind # "object" \/ ~d.hasAgents

\* C7: for every response text that cannot be interpreted as a Plan the
\* generator raises nothing and returns the default plan.
C7_MalformedFallsBack ==
    \A w \in Wrappings :
        (/\ results[w].kind # "none"
         /\ keySet
         /\ upstream.outcome = "ok"
         /\ NotAPlan(Wrap(w, upstream.content))) =>
            /\ results[w].kind = "return"
            /\ results[w].plan = FallbackPlan

AllCalled == \A w \in Wrappings : results[w].kind # "none"

\* the Plan a plan document denotes
PlanOf(doc) ==
    [response |-> SubSeq(doc, 2, Len(doc) - 1), agents |-> AgentsOf(doc[Len(doc)])]

C9_ProviderFailuresRaise ==
    \A w \in Wrappings :
        results[w].kind # "none" =>
            /\ ~keySet => (results[w].kind = "raise" /\ results[w].sent = 0)
            /\ (keySet /\ upstream.outcome \in
                    {"timeout", "connect_error", "http_error"}) =>
                  results[w].kind = "raise"

C9_Witness ==
    /\ provider = "google"
    /\ keySet
    /\ upstream.outcome = "http_error"
    /\ results["bare"].kind = "raise"

\* index in events of the i-th AgentStart
StartPos(i) ==
    CHOOSE k \in 1..Len(events) :
        /\ events[k].type = "agentStart"
        /\ Cardinality({j \in 1..k : events[j].type = "agentStart"}) = i

\* the events after position k up to the next AgentStart, AgentEnd or Plan
SegmentAfter(k) ==
    LET stops == {j \in (k + 1)..Len(events) :
                    events[j].type \in {"agentStart", "agentEnd", "plan"}}
        last == IF stops = {} THEN Len(events)
                ELSE (CHOOSE j \in stops : \A m \in stops : j <= m) - 1
    IN SubSeq(events, k + 1, last)

\* C10: no agent call is issued before the Plan event is out, and the events
\* between AgentStart(i) and AgentEnd(i) are the chunks agent i's call
\* yielded, one event per chunk, in the order yielded.
C10_ChunksForwardedInOrder ==
    /\ \A r \in 1..Len(requests) :
          requests[r].to = "agent" => (events # <<>> /\ events[1].type = "plan")
    /\ \A i \in 1..Len(delivered) :
          LET seg == SegmentAfter(StartPos(i)) IN
          /\ Len(seg) = Len(delivered[i])
          /\ \A k \in 1..Len(seg) :
                /\ seg[k].text = delivered[i][k].text
                /\ seg[k].type \in {"raw", "error"}

C10_Witness ==
    /\ pc = "done"
    /\ Len(delivered) = 2
    /\ Len(delivered[1]) = 2
    /\ delivered[1][1].text # delivered[1][2].text
    /\ Len(delivered[2]) = 3

\* C11: no step of a request adds to the knowledge log, so the log stays
\* empty throughout and every agent call gets the fixed capability text
\* alone as its system prompt, with no knowledge section.
C11_NoKnowledgeSection ==
    /\ knowledge_entries = <<>>
    /\ \A i \in 1..Len(requests) :
          requests[i].to = "agent" =>
              requests[i].system =
                  [base |-> build_sub_agent_prompt, knowledge |-> <<>>,
                   section |-> FALSE]

C11_Witness ==
    /\ pc = "done"
    /\ Len(AgentExchanges) = 2
    /\ TypeCount("raw") >= 1
    /\ knowledge_entries = <<>>

\* the provider name the call resolves to
Resolved == ResolveProvider(provider_override, search_provider_env)

BraveKey == "BRAVE_SEARCH_API_KEY" \in search_env \/ "BRAVE_API_KEY" \in search_env
SerpKey == "ZENSERP_API_KEY" \in search_env \/ "SERPAPI_API_KEY" \in search_env

\* C12: a call of search for a provider name that is neither "brave" nor
\* "serpapi" returns the empty sequence, raises nothing and sends nothing.
C12_UnknownProviderEmpty ==
    (search_out.called /\ Resolved \notin {"brave", "serpapi"}) =>
        /\ search_out.results = <<>>
        /\ ~search_out.raised
        /\ search_out.sent = 0

C12_Witness ==
    /\ search_out.called
    /\ provider_override = "bing"
    /\ BraveKey /\ SerpKey
    /\ search_out.vendor.outcome = "ok"
    /\ Len(search_out.vendor.entries) >= 2

\* C13: when the selected provider's credential is not in the environment,
\* search returns the empty sequence, raises nothing and sends nothing.
C13_MissingCredentialEmpty ==
    (/\ search_out.called
     /\ \/ Resolved = "brave" /\ ~BraveKey
        \/ Resolved = "serpapi" /\ ~SerpKey) =>
        /\ search_out.results = <<>>
        /\ ~search_out.raised
        /\ search_out.sent = 0

C13_Witness ==
    /\ search_out.called
    /\ Resolved = "brave"
    /\ ~BraveKey
    /\ search_out.vendor.outcome = "ok"
    /\ Len(search_out.vendor.entries) >= 2

Cap(name) == IF name = "brave" THEN MAX_RESULTS_BRAVE ELSE MAX_RESULTS_SERPAPI

\* every entry of the list carries what a SearchResult needs
Carried(entries) ==
    \A k \in 1..Len(entries) :
        Resolved = "serpapi" => (entries[k].position # 0 \/ entries[k].rank # 0)

\* C15: the returned sequence has at most 5 results for brave and 10 for
\* serpapi and is a leading prefix of the vendor's list: the k-th result is
\* built from the k-th vendor entry (when the credential is there and every
\* vendor entry is usable, it is the whole prefix up to the maximum).
C15_CappedPrefix ==
    search_out.called =>
        LET res == search_out.results
            ent == search_out.vendor.entries
        IN /\ Len(res) <= Cap(Resolved)
           /\ Len(res) <= Len(ent)
           /\ \A k \in 1..Len(res) :
                 /\ res[k].title = ent[k].title
                 /\ res[k].link = ent[k].url
                 /\ res[k].snippet = ent[k].description
           /\ (/\ search_out.sent = 1
               /\ search_out.vendor.outcome = "ok"
               /\ Carried(ent)) => Len(res) = Min(Len(ent), Cap(Resolved))

C15_Witness ==
    /\ search_out.called
    /\ Resolved = "serpapi"
    /\ Len(search_out.vendor.entries) = MAX_RESULTS_SERPAPI + 1
    /\ Len(search_out.results) = MAX_RESULTS_SERPAPI

\* C16: every returned result has the vendor's position when the entry
\* carries one and its 1-based index otherwise, and an entry without a
\* position loses no result.
C16_PositionOrIndex ==
    (/\ search_out.called
     /\ search_out.sent = 1
     /\ search_out.vendor.outcome = "ok") =>
        LET res == search_out.results
            ent == search_out.vendor.entries
        IN /\ Len(res) = Min(Len(ent), Cap(Resolved))
           /\ \A k \in 1..Len(res) :
                 res[k].position =
                     IF ent[k].position # 0 THEN ent[k].position
                     ELSE IF ent[k].rank # 0 THEN ent[k].rank
                     ELSE k

\* the groups a finished search loop must hold: one for every name asked
AllGathered == Len(provider_results) = Len(normalized_providers)

C17_NoContactRejected ==
    (~Truthy(request_body.name) /\ ~Truthy(request_body.email)) =>
        /\ person_pc \in {"idle", "received", "done"}
        /\ upstream_calls = <<>>
        /\ provider_results = <<>>
        /\ vendor_answers = <<>>
        /\ person_plan = NotCalled
        /\ person_pc = "done" => response.status = 422

C17_Witness ==
    /\ person_pc = "done"
    /\ request_body.name = ""
    /\ request_body.email = NoneValue
    /\ request_body.search_providers = <<"brave", "serpapi">>
    /\ request_body.include_plan
    /\ search_env # {}
    /\ response.status = 422

\* extract_persona has been applied to the first entry
PrimaryRan == persona_pc \in {"primary", "done", "failed"}

\* the title the heuristics read: the empty text for a result without one
TitleRead ==
    IF search_results[1].title = MissingText THEN <<>> ELSE search_results[1].title

\* the text before the first sep, the whole text when there is none
TextBefore(t, sep) ==
    LET i == Find(t, sep, 1) IN IF i = 0 THEN t ELSE SubSeq(t, 1, i - 1)

\* the text after the first sep
TextAfter(t, sep) == SubSeq(t, Find(t, sep, 1) + Len(sep), Len(t))

\* the characters of t that are not of class c, in order
RECURSIVE Without(_, _)
Without(t, c) ==
    IF Find(t, <<c>>, 1) = 0 THEN t
    ELSE Without(SubSeq(t, 1, Find(t, <<c>>, 1) - 1)
                 \o SubSeq(t, Find(t, <<c>>, 1) + 1, Len(t)), c)

WordsAndSpaces(t) == Without(Without(Without(t, Pipe), Dash), Punct)

\* a derived text, absent when it is empty
Shown(t) == IF t = <<>> THEN NullText ELSE t

Cut(t) == SubSeq(t, 1, Min(Len(t), JOB_TITLE_LIMIT))

\* C18: extract_persona never fails: for every result that is a mapping,
\* its fields missing or null included, it raises nothing and returns a
\* record with all nine fields.
C18_NeverFails ==
    (PrimaryRan /\ search_results[1].isDict) =>
        /\ ~primary_persona.raised
        /\ DOMAIN primary_persona.persona = PersonaFields

\* C19 as stated, read with surrounding white space trimmed and an empty
\* text left absent: with a pipe in the title, full_name is the text left of
\* the first pipe without its non-word, non-space characters and job_title
\* is the text right of that pipe cut to 100 characters; without a pipe
\* job_title is absent and full_name comes from the text before " - ".
C19_PipeSplitsNameAndTitle ==
    (PrimaryRan /\ ~primary_persona.raised) =>
        LET t == TitleRead
            p == primary_persona.persona
        IN IF Contains(t, <<Pipe>>)
           THEN /\ p.full_name = Shown(Strip(WordsAndSpaces(TextBefore(t, <<Pipe>>))))
                /\ p.job_title = Shown(Cut(Strip(TextAfter(t, <<Pipe>>))))
           ELSE /\ p.job_title = NullText
                /\ p.full_name =
                      Shown(Strip(WordsAndSpaces(TextBefore(t, <<Ws, Dash, Ws>>))))

\* C19 amended: with a pipe in the title, job_title is the text between the
\* first pipe and the second one (the end of the title when there is no
\* second), trimmed and then cut to 100 characters, absent when empty;
\* full_name is the text left of the first pipe without its non-word,
\* non-space characters, trimmed, absent when empty. Without a pipe
\* job_title is absent and full_name is made the same way from the text
\* before the first " - ".
C19_JobTitleIsSecondPart ==
    (PrimaryRan /\ ~primary_persona.raised) =>
        LET t == TitleRead
            p == primary_persona.persona
        IN IF Contains(t, <<Pipe>>)
           THEN /\ p.full_name = Shown(Strip(WordsAndSpaces(TextBefore(t, <<Pipe>>))))
                /\ p.job_title =
                      Shown(Cut(Strip(TextBefore(TextAfter(t, <<Pipe>>), <<Pipe>>))))
           ELSE /\ p.job_title = NullText
                /\ p.full_name =
                      Shown(Strip(WordsAndSpaces(TextBefore(t, <<Ws, Dash, Ws>>))))

C19_Witness ==
    /\ PrimaryRan
    /\ ~primary_persona.raised
    /\ search_results[1].title = <<Word, Pipe>> \o Run(JOB_TITLE_LIMIT + 1)
    /\ primary_persona.persona.full_name = <<Word>>
    /\ Len(primary_persona.persona.job_title) = JOB_TITLE_LIMIT

\* C20: extract_personas_from_results returns the records extract_persona
\* gives for the mapping entries, in input order, skipping the others: it
\* raises nothing and gives as many records as there are mapping entries.
C20_BatchSkipsMalformed ==
    (/\ persona_pc \in {"done", "failed"}
     /\ ~primary_persona.raised
     /\ Len(search_results) > 1) =>
        LET wf == SelectSeq(Tail(search_results), LAMBDA e : e.isDict) IN
        /\ ~additional_personas.raised
        /\ Len(additional_personas.personas) = Len(wf)
        /\ \A k \in 1..Len(wf) :
              additional_personas.personas[k] = extract_persona(wf[k]).persona

C22_StreamFinishes ==
    /\ <>(pc = "done")
    /\ [][pc = "done" =>
            /\ pc' = "done"
            /\ events' = events
            /\ requests' = requests
            /\ agent_idx' = agent_idx]_vars

C22_Witness ==
    /\ pc = "done"
    /\ Len(plan.agents) = 2
    /\ agent_idx = 3
    /\ TypeCount("agentEnd") = 2
    /\ Len(AgentExchanges) = 2
    /\ AgentExchanges[1].outcome = "timeout"
    /\ AgentExchanges[2].outcome = "ok"

\* the payload types of the StreamEvent variants; a forwarded upstream line
\* is emitted as it came (type "raw" in the model), not as a content payload
StreamEventTypes == {"plan", "agentStart", "agentChunk", "agentEnd", "error"}

\* C24: every emitted item carries a payload of one StreamEvent variant,
\* the items made of lines forwarded from the agent call included.
C24_PayloadsAreStreamEvents ==
    \A i \in 1..Len(events) : events[i].type \in StreamEventTypes

CurrentLocals ==
    Locals(pc, plan, agent_idx, knowledge_entries, pending, exc, events,
           requests, delivered)

\* how many agents of a request have had their AgentStart emitted
StartedAgents(l) ==
    IF l.plan = Unbound \/ l.pc \in {"plan", "yield_plan"} THEN 0
    ELSE IF l.pc \in {"call", "stream"} \/ l.exc # "" THEN l.agent_idx
    ELSE l.agent_idx - 1

FrameAll(chunks) == [k \in 1..Len(chunks) |-> Frame(chunks[k])]

\* the events of agent i of a request: its start, its chunks, and its end
\* once the loop has moved past it
AgentSegment(l, i) ==
    IF i > Len(l.plan.agents) THEN <<ErrorEvent("no such agent")>>
    ELSE <<AgentStartEvent(l.plan.agents[i])>>
         \o (IF i <= Len(l.delivered) THEN FrameAll(l.delivered[i]) ELSE <<>>)
         \o (IF i < l.agent_idx THEN <<AgentEndEvent(l.plan.agents[i])>> ELSE <<>>)

RECURSIVE AgentSegments(_, _)
AgentSegments(l, n) ==
    IF n <= 0 THEN <<>> ELSE AgentSegments(l, n - 1) \o AgentSegment(l, n)

\* the event sequence a request produces on its own, from its own plan, its
\* own position in the loop and the chunks its own agent calls yielded
AloneEvents(l) ==
    (IF l.plan = Unbound \/ l.pc \in {"plan", "yield_plan"} THEN <<>>
     ELSE <<PlanEvent(l.plan)>>)
    \o AgentSegments(l, StartedAgents(l))
    \o (IF l.pc = "done" /\ l.exc # "" THEN <<ErrorEvent(l.exc)>> ELSE <<>>)

\* a single request produces AloneEvents
SingleRequestEvents == running = 0 => events = AloneEvents(CurrentLocals)

\* the agent calls of a request carry its own Knowledge Log and are its own
\* agents in order
OwnExchanges(l) ==
    LET calls == SelectSeq(l.requests, IsAgentRequest) IN
    \A i \in 1..Len(calls) :
        /\ calls[i].idx = i
        /\ calls[i].system = SystemPrompt(l.knowledge_entries)

====
